---------------------------- MODULE Spec2Model ----------------------------
(***************************************************************************)
(* Photo-frame editor: the App component (photo / frame / frameError       *)
(* state, file loading, reset, direct controls, export), the CanvasEditor  *)
(* component (bitmap caching, canvas sizing, drawing, pointer drag) and    *)
(* the caption service (generateCaptionForPhoto).                          *)
(*                                                                         *)
(* React state is modelled as the latest value of every hook (all updates  *)
(* in the source are absolute or functional, so the latest value is well   *)
(* defined), plus `rendered`: what the last committed render saw.  Event   *)
(* handlers are closures of the last committed render, so they read        *)
(* `rendered`, not the latest hook value.  Updates made in discrete events *)
(* (mousedown, mouseup, touchstart, touchend, click, change) are committed *)
(* before the next event; updates made in continuous events (mousemove,    *)
(* touchmove, mouseleave) and in load callbacks are committed by a later   *)
(* task (action Flush), which another event may precede.                   *)
(*                                                                         *)
(* Numbers: offsets and pointer positions are integers; scale is in        *)
(* tenths (10 = 1.0); canvas sizes are the integers the canvas element     *)
(* stores (the double computed by the sizing effect, truncated).           *)
(***************************************************************************)
EXTENDS Integers, FiniteSets, Sequences, TLC

(* ------------------------------ bounds -------------------------------- *)
\* files the user can pick: 1..NumFiles
NumFiles == 3
\* pointer coordinates range over 0..MaxCoord on both axes
MaxCoord == 1
\* drag stops being explored once an offset leaves -MaxOffset..MaxOffset
MaxOffset == 2
\* the canvas is displayed at 1/k of its pixel width, k in 1..MaxSens
MaxSens == 2
\* file loads that may be in flight at once
MaxInFlight == 2
\* frame sizes tried by the sizing specification: 1..MaxDim on both axes
MaxDim == 12
\* texts the caption model may answer: up to MaxText words or blanks
MaxText == 4

(* ----------------------------- constants ------------------------------ *)
\* `null` of the source
Null == 0
\* the remote default frame; file ids are positive
PLACEHOLDER_FRAME == -1
\* maxDim of the sizing effect, also its default width and height
maxDim == 1080
\* mantissa bits of a double are 53: a quotient is scaled by 2^(52 - e)
MantissaShift == 52

Files == 1..NumFiles
Sources == Files \cup {PLACEHOLDER_FRAME}
Coords == 0..MaxCoord
Points == [x : Coords, y : Coords]

\* scale in tenths: slider ends and the default; rotation in degrees
ScaleValues == {1, 10, 40}
RotationValues == {-180, 0, 90}

INITIAL_PHOTO_STATE == [src |-> Null, x |-> 0, y |-> 0, scale |-> 10, rotation |-> 0]

(* ------------------- the files of the environment --------------------- *)
\* natural size of the image in source f, and whether file f decodes at all
NaturalSize(f) ==
    CASE f = 1 -> [width |-> 1600, height |-> 1200]
      [] f = 2 -> [width |-> 900, height |-> 1800]
      [] f = PLACEHOLDER_FRAME -> [width |-> 1200, height |-> 1600]
      [] OTHER -> [width |-> 500, height |-> 500]
FileDecodes(f) == f % 3 # 0

\* the frame sizes of the sizing specification: a grid, the sizes above,
\* and two extreme aspect ratios
GridSizes == [width : 1..MaxDim, height : 1..MaxDim]
ExtremeSizes == {[width |-> 2000, height |-> 1], [width |-> 1, height |-> 2000]}
SizesTried == GridSizes \cup ExtremeSizes \cup {NaturalSize(f) : f \in 1..3}

(* ------------------- double arithmetic of the sizing ------------------ *)
RECURSIVE Pow2(_)
Pow2(n) == IF n <= 0 THEN 1 ELSE 2 * Pow2(n - 1)

\* floor(log2(a / b)) for positive a, b
RECURSIVE FloorLog2Up(_, _, _)
FloorLog2Up(a, b, e) == IF 2 * Pow2(e) * b <= a THEN FloorLog2Up(a, b, e + 1) ELSE e
RECURSIVE FloorLog2Down(_, _, _)
FloorLog2Down(a, b, n) == IF a * Pow2(n) < b THEN FloorLog2Down(a, b, n + 1) ELSE n
FloorLog2(a, b) == IF a >= b THEN FloorLog2Up(a, b, 0) ELSE 0 - FloorLog2Down(a, b, 0)

\* (r * 2^s) mod b
RECURSIVE ShiftMod(_, _, _)
ShiftMod(r, s, b) == IF s = 0 THEN r % b ELSE ShiftMod((2 * r) % b, s - 1, b)

\* a / b rounded to a double is m * 2^-s with m * b = a * 2^s + RoundErr:
\* s = 52 - floor(log2(a/b)), and RoundErr > 0 when the quotient rounds up
RatioShift(a, b) == MantissaShift - FloorLog2(a, b)
RoundErr(a, b) ==
    LET rem == ShiftMod(a % b, RatioShift(a, b), b)
    IN  IF 2 * rem > b THEN b - rem ELSE 0 - rem

\* x * 2^t > y, for integers x, y and any integer t
ScaledGreater(x, t, y) == IF t >= 0 THEN x * Pow2(t) > y ELSE x > y * Pow2(0 - t)

\* the exponent t with 2^t * (half the gap between n and the double below n)
\* = 2^-s, for an integer n >= 1
HalfGapShift(n, s) ==
    LET k == FloorLog2(n, 1)
    IN  (MantissaShift + 1) - k - s + (IF Pow2(k) = n THEN 1 ELSE 0)

\* the integer a canvas dimension takes from the double  maxDim / (w / h)
\* (w > h): floor of the exact value unless that is an integer n and the
\* double falls below n, which the truncation turns into n - 1
DivByRatio(w, h) ==
    LET num == maxDim * h
        n == num \div w
        d == RoundErr(w, h)
    IN  IF num % w # 0 THEN n
        ELSE IF d > 0 /\ ScaledGreater(n * d, HalfGapShift(n, RatioShift(w, h)), w)
             THEN n - 1 ELSE n

\* the same for the double  maxDim * (w / h)  (w <= h)
MulByRatio(w, h) ==
    LET num == maxDim * w
        n == num \div h
        d == RoundErr(w, h)
    IN  IF num % h # 0 THEN n
        ELSE IF d < 0 /\ ScaledGreater(maxDim * (0 - d), HalfGapShift(n, RatioShift(w, h)), h)
             THEN n - 1 ELSE n

\* Set Canvas Size effect: the width and height written to the canvas
CanvasSize(fw, fh) ==
    IF fw # Null /\ fh # Null
    THEN IF fw > fh
         THEN [width |-> maxDim, height |-> DivByRatio(fw, fh)]
         ELSE [width |-> MulByRatio(fw, fh), height |-> maxDim]
    ELSE [width |-> maxDim, height |-> maxDim]

(* ------------------------------- state -------------------------------- *)
VARIABLES
    photo,        \* App: useState<PhotoState>, latest value
    frame,        \* App: useState<FrameState>, latest value
    frameError,   \* App: advisory string (Null, or 1 = "Failed to load default frame...")
    canvasRef,    \* App: canvasRef.current (Null until onCanvasReady)
    isDragging,   \* CanvasEditor: latest value
    dragStart,    \* CanvasEditor: latest value
    frameImg,     \* CanvasEditor: cached frame bitmap (the source it decoded)
    photoImg,     \* CanvasEditor: cached photo bitmap
    rendered,     \* what the last committed render saw (handler closures, effect deps)
    dirty,        \* state updates not yet committed
    canvas,       \* the canvas element's width and height
    surface,      \* the canvas element's pixels (the drawing calls made) and 2D context
    readers,      \* FileReaders in flight
    frameProbes,  \* App-level frame Image loads in flight
    frameLoads,   \* CanvasEditor frame Image loads in flight
    photoLoads,   \* CanvasEditor photo Image loads in flight
    ev,           \* history: the event handled by the last step
    lastOk,       \* history: per kind, the source of the last bitmap load that succeeded
    failedSince,  \* history: per kind, a bitmap load failed since lastOk was set
    lastPt,       \* history: the point of the previous pointer event of the drag
    fileSize,     \* environment: the natural size of the image of each source
    exported,     \* App: what the last handleDownload produced (a file or an alert)
    caption       \* gemini: the call of generateCaptionForPhoto, its inputs and result

vars == <<photo, frame, frameError, canvasRef, isDragging, dragStart, frameImg, photoImg,
          rendered, dirty, canvas, surface, readers, frameProbes, frameLoads, photoLoads,
          ev, lastOk, failedSince, lastPt, fileSize, exported, caption>>

appVars == <<photo, frame, frameError>>
dragVars == <<isDragging, dragStart>>
imgVars == <<frameImg, photoImg>>
domVars == <<canvasRef, canvas, surface>>
loadVars == <<readers, frameProbes, frameLoads, photoLoads>>
okVars == <<lastOk, failedSince>>
sideVars == <<exported, caption>>

Clean == [app |-> FALSE, draw |-> FALSE, ed |-> FALSE]
Origin == [x |-> 0, y |-> 0]
NoFrame == [src |-> Null, width |-> Null, height |-> Null]
\* nothing exported yet
NoExport == [threw |-> FALSE, alert |-> FALSE, clicked |-> FALSE, image |-> <<>>,
             afterFailure |-> FALSE]

\* strings of the caption service, as sequences of words and blanks
Blank == " "
NoKey == <<>>
MockCaption == <<"Capture", Blank, "the", Blank, "moment!">>
EmptyTextCaption == <<"Memories", Blank, "forever">>
ErrorCaption == <<"Beautiful", Blank, "Day">>

\* the gemini module once loaded with process.env.API_KEY || '':
\* generateCaptionForPhoto not called yet
GeminiLoaded(apiKey) ==
    [pc |-> "loaded", apiKey |-> apiKey, request |-> <<>>,
     response |-> [kind |-> "none", hasText |-> FALSE, text |-> <<>>],
     result |-> [settled |-> "pending", value |-> <<>>],
     fallbacks |-> {}]
NoCaption == GeminiLoaded(NoKey)

\* what is typed or dragged into a control: a number, or text that is none
Text(v) == [num |-> TRUE, val |-> v]
Garbage == [num |-> FALSE, val |-> 0]

\* ev: the event, the sensitivity of a move, whether the step drew, whether
\* it ran the sizing step, and the input handed to a direct control
Event(op, sens, drew) ==
    [op |-> op, sens |-> sens, drew |-> drew, sized |-> FALSE, input |-> Garbage]

(* ------------------------------ drawing ------------------------------- *)
\* The 2D context: its current transform, as the list of the translate /
\* rotate / scale calls that composed it, and its stack of saved transforms.
\* A drawing call is recorded with the transform in force.  Lengths are in
\* half pixels (canvas sizes are whole pixels, their halves need not be),
\* angles in degrees, scale factors in tenths.
Identity == <<>>
DefaultContext == [transform |-> Identity, stack |-> <<>>]

TransformOp(op, a, b) == [op |-> op, a |-> a, b |-> b]
Transformed(ctx, t) == [ctx EXCEPT !.transform = Append(@, t)]

save(ctx) == [ctx EXCEPT !.stack = Append(@, ctx.transform)]

\* faulty variant: the saved transform is not put back
restore_Skipped(ctx) == ctx

restore(ctx) ==
    IF ctx.stack = <<>> THEN ctx
    ELSE [transform |-> ctx.stack[Len(ctx.stack)],
          stack |-> SubSeq(ctx.stack, 1, Len(ctx.stack) - 1)]

translate(ctx, x, y) == Transformed(ctx, TransformOp("translate", x, y))
rotate(ctx, degrees) == Transformed(ctx, TransformOp("rotate", degrees, 0))
scale(ctx, sx, sy) == Transformed(ctx, TransformOp("scale", sx, sy))

Drawn(op, ctx, img, x, y, w, h) ==
    [op |-> op, transform |-> ctx.transform, img |-> img,
     x |-> x, y |-> y, w |-> w, h |-> h]
fillRect(ctx, x, y, w, h) == Drawn("fillRect", ctx, Null, x, y, w, h)
drawImage(ctx, img, dx, dy, dw, dh) == Drawn("drawImage", ctx, img, dx, dy, dw, dh)

\* where a transform puts a point of the local frame: the calls compose
\* left to right, so the last one made acts on the point first (angles in
\* right angles only; clockwise, y pointing down)
Cos(degrees) == CASE degrees % 360 = 0 -> 1
                  [] degrees % 360 = 90 -> 0
                  [] degrees % 360 = 180 -> 0 - 1
                  [] degrees % 360 = 270 -> 0
Sin(degrees) == Cos(degrees - 90)
ApplyOp(t, pt) ==
    CASE t.op = "translate" -> [x |-> pt.x + t.a, y |-> pt.y + t.b]
      [] t.op = "rotate" -> [x |-> pt.x * Cos(t.a) - pt.y * Sin(t.a),
                             y |-> pt.x * Sin(t.a) + pt.y * Cos(t.a)]
      [] t.op = "scale" -> [x |-> (pt.x * t.a) \div 10, y |-> (pt.y * t.b) \div 10]
RECURSIVE CanvasPoint(_, _)
CanvasPoint(transform, pt) ==
    IF transform = <<>> THEN pt
    ELSE ApplyOp(Head(transform), CanvasPoint(Tail(transform), pt))

\* clearRect: under the identity transform a rectangle over the whole canvas
\* removes all that was drawn; otherwise what it clears is recorded
clearRect(layers, ctx, x, y, w, h, size) ==
    IF ctx.transform = Identity /\ x = 0 /\ y = 0 /\ w = 2 * size.width /\ h = 2 * size.height
    THEN <<>>
    ELSE Append(layers, Drawn("clearRect", ctx, Null, x, y, w, h))

\* a canvas whose size was just written: every pixel transparent, the
\* context back in its default state
Cleared(size) ==
    [width |-> size.width, height |-> size.height, white |-> FALSE,
     photo |-> Null, x |-> 0, y |-> 0, scale |-> 0, rotation |-> 0, frame |-> Null,
     layers |-> <<>>, ctx |-> DefaultContext]

\* faulty variant: the scale is applied before the translation
PhotoTransform_ScaleFirst(ctx, p, cw, ch) ==
    translate(rotate(scale(ctx, p.scale, p.scale), p.rotation), cw + 2 * p.x, ch + 2 * p.y)

\* the three transform calls of drawPhotoLayer, in their order
PhotoTransform(ctx, p, cw, ch) ==
    scale(rotate(translate(ctx, cw + 2 * p.x, ch + 2 * p.y), p.rotation), p.scale, p.scale)

\* drawPhotoLayer: the layer drawn, and the context it leaves
drawPhotoLayer(ctx, img, p, cw, ch) ==
    LET placed == PhotoTransform(save(ctx), p, cw, ch)
    IN  [layers |-> <<drawImage(placed, img, 0 - fileSize[img].width, 0 - fileSize[img].height,
                                2 * fileSize[img].width, 2 * fileSize[img].height)>>,
         ctx |-> restore(placed)]

\* faulty variant: the frame is drawn before the photo
Layered_FrameBelow(background, photoLayers, frameLayers) ==
    background \o frameLayers \o photoLayers

\* the drawing calls of draw() in their order
Layered(background, photoLayers, frameLayers) ==
    background \o photoLayers \o frameLayers

\* draw() on the canvas as it is found: clear, white fill, then the photo
\* layer if a photo bitmap is cached, then the frame stretched over the
\* canvas if a frame bitmap is cached
draw(before, pImg, p, fImg) ==
    LET cw == before.width
        ch == before.height
        blank == clearRect(before.layers, before.ctx, 0, 0, 2 * cw, 2 * ch, before)
        background == Append(blank, fillRect(before.ctx, 0, 0, 2 * cw, 2 * ch))
        photoLayer == IF pImg # Null THEN drawPhotoLayer(before.ctx, pImg, p, cw, ch)
                      ELSE [layers |-> <<>>, ctx |-> before.ctx]
        frameLayers == IF fImg # Null
                       THEN <<drawImage(photoLayer.ctx, fImg, 0, 0, 2 * cw, 2 * ch)>>
                       ELSE <<>>
    IN  [width |-> cw, height |-> ch, white |-> TRUE,
         photo |-> pImg,
         x |-> IF pImg # Null THEN p.x ELSE 0,
         y |-> IF pImg # Null THEN p.y ELSE 0,
         scale |-> IF pImg # Null THEN p.scale ELSE 0,
         rotation |-> IF pImg # Null THEN p.rotation ELSE 0,
         frame |-> fImg,
         layers |-> Layered(background, photoLayer.layers, frameLayers),
         ctx |-> photoLayer.ctx]

(* ------------------------- committing a render ------------------------ *)
\* Load Frame Image / Load Photo Image effects, run when src changed:
\* a new Image starts loading; nothing is done to a load already in flight
StartLoad(src, prevSrc, loads) ==
    IF src # prevSrc /\ src # Null THEN loads \cup {src} ELSE loads
\* ... and with no src the cached bitmap is dropped
KeepImg(src, prevSrc, img) ==
    IF src # prevSrc /\ src = Null THEN Null ELSE img

\* the Set Canvas Size effect runs when onCanvasReady (a new function on
\* every render of App) or the frame's width or height changed
SizeEffectRuns(fr, d) ==
    d.app \/ fr.width # rendered.frameW \/ fr.height # rendered.frameH

\* the draw effect runs when photo, frame, photoImg or frameImg changed
DrawEffectRuns(d) == d.draw

\* the event of a step that commits a render of frame fr with updates d
Committed(op, fr, d) ==
    [Event(op, 0, DrawEffectRuns(d)) EXCEPT !.sized = SizeEffectRuns(fr, d)]

\* One commit of App and CanvasEditor rendered with the given hook values,
\* with its effects in source order.
Commit(ph, fr, drg, ds, d) ==
    /\ rendered' = [isDragging |-> drg, dragStart |-> ds, photoSrc |-> ph.src,
                    frameSrc |-> fr.src, frameW |-> fr.width, frameH |-> fr.height]
    /\ frameLoads' = StartLoad(fr.src, rendered.frameSrc, frameLoads)
    /\ photoLoads' = StartLoad(ph.src, rendered.photoSrc, photoLoads)
    /\ frameImg' = KeepImg(fr.src, rendered.frameSrc, frameImg)
    /\ photoImg' = KeepImg(ph.src, rendered.photoSrc, photoImg)
    /\ canvas' = IF SizeEffectRuns(fr, d) THEN CanvasSize(fr.width, fr.height) ELSE canvas
    /\ canvasRef' = IF SizeEffectRuns(fr, d) THEN 1 ELSE canvasRef
    /\ surface' = LET found == IF SizeEffectRuns(fr, d) THEN Cleared(canvas') ELSE surface
                  IN  IF DrawEffectRuns(d) THEN draw(found, photoImg, ph, frameImg) ELSE found
    /\ dirty' = [app |-> FALSE, ed |-> FALSE,
                 draw |-> frameImg' # frameImg \/ photoImg' # photoImg]

(* -------------------------------- Init -------------------------------- *)
\* after the first render and its effects: no photo, no frame, a white
\* 1080 x 1080 canvas, and the default frame loading
Init ==
    /\ photo = INITIAL_PHOTO_STATE
    /\ frame = NoFrame
    /\ frameError = Null
    /\ canvasRef = 1
    /\ isDragging = FALSE
    /\ dragStart = Origin
    /\ frameImg = Null
    /\ photoImg = Null
    /\ rendered = [isDragging |-> FALSE, dragStart |-> Origin, photoSrc |-> Null,
                   frameSrc |-> Null, frameW |-> Null, frameH |-> Null]
    /\ dirty = Clean
    /\ canvas = CanvasSize(Null, Null)
    /\ surface = draw(Cleared(CanvasSize(Null, Null)), Null, INITIAL_PHOTO_STATE, Null)
    /\ readers = {}
    /\ frameProbes = {PLACEHOLDER_FRAME}
    /\ frameLoads = {}
    /\ photoLoads = {}
    /\ ev = Event("mount", 0, TRUE)
    /\ lastOk = [photo |-> Null, frame |-> Null]
    /\ failedSince = [photo |-> FALSE, frame |-> FALSE]
    /\ lastPt = Origin
    /\ fileSize = [f \in Sources |-> NaturalSize(f)]
    /\ exported = NoExport
    /\ caption = NoCaption


(* ---------------------------- file loading ---------------------------- *)
InFlight == Cardinality(readers) + Cardinality(frameProbes \cap Files)
            + Cardinality(frameLoads \cap Files) + Cardinality(photoLoads)

\* handleFileChange: a FileReader starts reading the chosen file
handleFileChange(f, type) ==
    /\ InFlight < MaxInFlight
    /\ readers' = readers \cup {[file |-> f, type |-> type]}
    /\ ev' = Event("choose", 0, FALSE)
    /\ UNCHANGED <<appVars, dragVars, imgVars, domVars, rendered, dirty,
                   frameProbes, frameLoads, photoLoads, okVars, lastPt, fileSize, sideVars>>

\* faulty variant: only the source is replaced
PhotoFromFile_KeepsTransform(result) == [photo EXCEPT !.src = result]

\* reader.onload, photo branch: the photo state is replaced
PhotoFromFile(result) == [INITIAL_PHOTO_STATE EXCEPT !.src = result]

\* reader.onload: the photo is set at once; a frame is first loaded into
\* an Image of App to learn its size
ReaderOnload(r) ==
    /\ r \in readers
    /\ readers' = readers \ {r}
    /\ IF r.type = "photo"
       THEN /\ photo' = PhotoFromFile(r.file)
            /\ dirty' = [dirty EXCEPT !.app = TRUE, !.draw = TRUE]
            /\ UNCHANGED frameProbes
       ELSE /\ frameProbes' = frameProbes \cup {r.file}
            /\ UNCHANGED <<photo, dirty>>
    /\ ev' = Event("read", 0, FALSE)
    /\ UNCHANGED <<frame, frameError, dragVars, imgVars, domVars, rendered,
                   frameLoads, photoLoads, okVars, lastPt, fileSize, sideVars>>

\* whether a load of src can succeed / can fail: a file decodes or does
\* not; a fetch of the remote default frame may go either way
CanLoad(src) == src = PLACEHOLDER_FRAME \/ FileDecodes(src)
CanFail(src) == src = PLACEHOLDER_FRAME \/ ~FileDecodes(src)

\* img.onload in App (default frame and chosen frame alike)
FrameFromImage(src) ==
    [src |-> src, width |-> fileSize[src].width, height |-> fileSize[src].height]

ProbeOnload(src) ==
    /\ src \in frameProbes
    /\ CanLoad(src)
    /\ frameProbes' = frameProbes \ {src}
    /\ frame' = FrameFromImage(src)
    /\ frameError' = Null
    /\ dirty' = [dirty EXCEPT !.app = TRUE, !.draw = TRUE]
    /\ ev' = Event("probeLoad", 0, FALSE)
    /\ UNCHANGED <<photo, dragVars, imgVars, domVars, rendered, readers,
                   frameLoads, photoLoads, okVars, lastPt, fileSize, sideVars>>

\* faulty variant: the error handler drops the frame
ProbeErrorFrame_Clears(src, fr) == NoFrame

\* img.onerror in App: set for the default frame only
ProbeErrorAdvisory(src, advisory) == IF src = PLACEHOLDER_FRAME THEN 1 ELSE advisory
ProbeErrorFrame(src, fr) == fr

ProbeOnerror(src) ==
    /\ src \in frameProbes
    /\ CanFail(src)
    /\ frameProbes' = frameProbes \ {src}
    /\ frameError' = ProbeErrorAdvisory(src, frameError)
    /\ frame' = ProbeErrorFrame(src, frame)
    /\ dirty' = [dirty EXCEPT !.app = @ \/ frameError' # frameError \/ frame' # frame,
                              !.draw = @ \/ frame' # frame]
    /\ failedSince' = [failedSince EXCEPT !.frame = lastOk.frame # Null]
    /\ ev' = Event("probeError", 0, FALSE)
    /\ UNCHANGED <<photo, dragVars, imgVars, domVars, rendered, readers,
                   frameLoads, photoLoads, lastOk, lastPt, fileSize, sideVars>>

\* img.onload of the Load Frame Image effect
FrameImgLoaded(img, cur, src) == img

FrameImgOnload(src) ==
    /\ src \in frameLoads
    /\ CanLoad(src)
    /\ frameLoads' = frameLoads \ {src}
    /\ frameImg' = FrameImgLoaded(src, frameImg, frame.src)
    /\ dirty' = [dirty EXCEPT !.draw = TRUE]
    /\ lastOk' = [lastOk EXCEPT !.frame = src]
    /\ failedSince' = [failedSince EXCEPT !.frame = FALSE]
    /\ ev' = Event("frameLoad", 0, FALSE)
    /\ UNCHANGED <<appVars, dragVars, photoImg, domVars, rendered, readers,
                   frameProbes, photoLoads, lastPt, fileSize, sideVars>>

\* the effect's Image has no onerror: the cached bitmap stays
FrameImgFailed(img) == img

FrameImgOnerror(src) ==
    /\ src \in frameLoads
    /\ CanFail(src)
    /\ frameLoads' = frameLoads \ {src}
    /\ frameImg' = FrameImgFailed(frameImg)
    /\ dirty' = [dirty EXCEPT !.draw = @ \/ frameImg' # frameImg]
    /\ failedSince' = [failedSince EXCEPT !.frame = lastOk.frame # Null]
    /\ ev' = Event("frameError", 0, FALSE)
    /\ UNCHANGED <<appVars, dragVars, photoImg, domVars, rendered, readers,
                   frameProbes, photoLoads, lastOk, lastPt, fileSize, sideVars>>

\* faulty variant: a load that is no longer the current source is ignored
PhotoImgLoaded_IfCurrent(img, cur, src) == IF img = src THEN img ELSE cur

\* img.onload of the Load Photo Image effect
PhotoImgLoaded(img, cur, src) == img

PhotoImgOnload(src) ==
    /\ src \in photoLoads
    /\ CanLoad(src)
    /\ photoLoads' = photoLoads \ {src}
    /\ photoImg' = PhotoImgLoaded(src, photoImg, photo.src)
    /\ dirty' = [dirty EXCEPT !.draw = TRUE]
    /\ lastOk' = [lastOk EXCEPT !.photo = src]
    /\ failedSince' = [failedSince EXCEPT !.photo = FALSE]
    /\ ev' = Event("photoLoad", 0, FALSE)
    /\ UNCHANGED <<appVars, dragVars, frameImg, domVars, rendered, readers,
                   frameProbes, frameLoads, lastPt, fileSize, sideVars>>

\* faulty variant: a failed load drops the cached bitmap
PhotoImgFailed_Clears(img) == Null

\* no onerror either: the cached bitmap and the photo state stay
PhotoImgFailed(img) == img
PhotoAfterFailure(p) == p

PhotoImgOnerror(src) ==
    /\ src \in photoLoads
    /\ CanFail(src)
    /\ photoLoads' = photoLoads \ {src}
    /\ photoImg' = PhotoImgFailed(photoImg)
    /\ photo' = PhotoAfterFailure(photo)
    /\ dirty' = [dirty EXCEPT !.draw = @ \/ photoImg' # photoImg \/ photo' # photo,
                              !.app = @ \/ photo' # photo]
    /\ failedSince' = [failedSince EXCEPT !.photo = lastOk.photo # Null]
    /\ ev' = Event("photoError", 0, FALSE)
    /\ UNCHANGED <<frame, frameError, dragVars, frameImg, domVars, rendered, readers,
                   frameProbes, frameLoads, lastOk, lastPt, fileSize, sideVars>>

\* the scheduled render of updates made outside discrete events
Flush ==
    /\ dirty # Clean
    /\ Commit(photo, frame, isDragging, dragStart, dirty)
    /\ ev' = Committed("flush", frame, dirty)
    /\ UNCHANGED <<appVars, dragVars, readers, frameProbes, okVars, lastPt, fileSize, sideVars>>

(* ------------------------------ dragging ------------------------------ *)
\* handlePointerDown (onMouseDown, onTouchStart): discrete, committed at once
handlePointerDown(p) ==
    /\ isDragging' = TRUE
    /\ dragStart' = p
    /\ Commit(photo, frame, TRUE, p, [dirty EXCEPT !.ed = TRUE])
    /\ lastPt' = p
    /\ ev' = Committed("down", frame, [dirty EXCEPT !.ed = TRUE])
    /\ UNCHANGED <<appVars, readers, frameProbes, okVars, fileSize, sideVars>>

\* sensitivity = canvas.width / rect.width
Sensitivity(canvasWidth, rectWidth) == canvasWidth \div rectWidth

\* the displayed widths tried: the canvas shown at 1/k of its pixel width
RectWidths == {canvas.width \div k : k \in {j \in 1..MaxSens : canvas.width % j = 0}}

\* the photo after a move to p, as the handler of the last render computes it
MovedPhoto(prev, p, start, sens) ==
    [prev EXCEPT !.x = @ + (p.x - start.x) * sens,
                 !.y = @ + (p.y - start.y) * sens]

InRange(ph) == /\ ph.x \in (0 - MaxOffset)..MaxOffset
               /\ ph.y \in (0 - MaxOffset)..MaxOffset

\* handlePointerMove (onMouseMove, onTouchMove): continuous, committed later
handlePointerMove(p, rectWidth) ==
    /\ canvas.width > 0
    /\ IF ~rendered.isDragging
       THEN UNCHANGED <<photo, dragStart, dirty>>
       ELSE /\ photo' = MovedPhoto(photo, p, rendered.dragStart,
                                   Sensitivity(canvas.width, rectWidth))
            /\ InRange(photo')
            /\ dragStart' = p
            /\ dirty' = [app |-> TRUE, draw |-> TRUE, ed |-> TRUE]
    /\ lastPt' = IF isDragging THEN p ELSE lastPt
    /\ ev' = Event("move", Sensitivity(canvas.width, rectWidth), FALSE)
    /\ UNCHANGED <<frame, frameError, isDragging, imgVars, domVars, rendered,
                   loadVars, okVars, fileSize, sideVars>>

\* handlePointerUp from onMouseUp / onTouchEnd: discrete, committed at once
handlePointerUp ==
    /\ isDragging' = FALSE
    /\ Commit(photo, frame, FALSE, dragStart, [dirty EXCEPT !.ed = TRUE])
    /\ ev' = Committed("up", frame, [dirty EXCEPT !.ed = TRUE])
    /\ UNCHANGED <<appVars, dragStart, readers, frameProbes, okVars, lastPt, fileSize, sideVars>>

\* handlePointerUp from onMouseLeave: continuous, committed later
handlePointerLeave ==
    /\ isDragging' = FALSE
    /\ dirty' = [dirty EXCEPT !.ed = @ \/ isDragging]
    /\ ev' = Event("leave", 0, FALSE)
    /\ UNCHANGED <<appVars, dragStart, imgVars, domVars, rendered, loadVars,
                   okVars, lastPt, fileSize, sideVars>>

(* --------------------------- direct controls -------------------------- *)
\* the controls are rendered only when the last render saw a photo source
ControlsShown == rendered.photoSrc # Null

AppChanged == [dirty EXCEPT !.app = TRUE, !.draw = TRUE]

\* faulty variant: the reset restores the whole initial state, source included
ResetPosition_DropsPhoto(prev) == INITIAL_PHOTO_STATE

\* Reset Position onClick
ResetPosition(prev) == [prev EXCEPT !.x = 0, !.y = 0, !.scale = 10, !.rotation = 0]

Reset ==
    /\ ControlsShown
    /\ photo' = ResetPosition(photo)
    /\ Commit(photo', frame, isDragging, dragStart, AppChanged)
    /\ ev' = Committed("reset", frame, AppChanged)
    /\ UNCHANGED <<frame, frameError, dragVars, readers, frameProbes, okVars, lastPt, fileSize, sideVars>>

\* the attributes of the two range inputs (scale in tenths)
ScaleMin == 1
ScaleMax == 40
RotationMin == 0 - 180
RotationMax == 180

\* parseFloat of text that is no number
NaN == 0 - 99999

\* faulty variant: the control hands on whatever was put in
RangeValue_Unchecked(raw, lo, hi) == raw

\* the value an <input type="range" min=lo max=hi> holds once raw is put in:
\* text that is no number gives the default (the middle, rounded up to the
\* step), a number below min gives min, one above max gives max
RangeValue(raw, lo, hi) ==
    IF ~raw.num THEN Text((lo + hi + 1) \div 2)
    ELSE IF raw.val < lo THEN Text(lo)
    ELSE IF raw.val > hi THEN Text(hi)
    ELSE raw

parseFloat(value) == IF value.num THEN value.val ELSE NaN

\* scale onChange: setPhoto(p => ({ ...p, scale: parseFloat(e.target.value) }))
ScaleChange(raw) ==
    /\ ControlsShown
    /\ photo' = [photo EXCEPT !.scale = parseFloat(RangeValue(raw, ScaleMin, ScaleMax))]
    /\ Commit(photo', frame, isDragging, dragStart, AppChanged)
    /\ ev' = [Committed("scale", frame, AppChanged) EXCEPT !.input = raw]
    /\ UNCHANGED <<frame, frameError, dragVars, readers, frameProbes, okVars, lastPt, fileSize, sideVars>>

\* rotation onChange
RotationChange(raw) ==
    /\ ControlsShown
    /\ photo' = [photo EXCEPT !.rotation = parseFloat(RangeValue(raw, RotationMin, RotationMax))]
    /\ Commit(photo', frame, isDragging, dragStart, AppChanged)
    /\ ev' = [Committed("rotate", frame, AppChanged) EXCEPT !.input = raw]
    /\ UNCHANGED <<frame, frameError, dragVars, readers, frameProbes, okVars, lastPt, fileSize, sideVars>>

\* the slider dragged to one of its own values
SetScale(v) == ScaleChange(Text(v))
SetRotation(v) == RotationChange(Text(v))

\* inputs tried on the controls: in range, out of range, and no number
ScaleInputs == {Text(v) : v \in {0 - 10, 0, 1, 25, 40, 41}} \cup {Garbage}
RotationInputs == {Text(v) : v \in {0 - 181, 0 - 180, 45, 180, 360}} \cup {Garbage}

(* ------------------------------ captions ------------------------------ *)
\* String.prototype.trim
RECURSIVE TrimStart(_)
TrimStart(t) == IF t # <<>> /\ Head(t) = Blank THEN TrimStart(Tail(t)) ELSE t
RECURSIVE TrimEnd(_)
TrimEnd(t) ==
    IF t # <<>> /\ t[Len(t)] = Blank THEN TrimEnd(SubSeq(t, 1, Len(t) - 1)) ELSE t
trim(t) == TrimEnd(TrimStart(t))

\* the photos handed over, split at ","; and the answers of the model call
Images == {<<"data:image/jpeg;base64", "AAAA">>, <<"AAAA">>, <<"">>}
Texts == UNION {[1..n -> {Blank, "Smile"}] : n \in 0..MaxText}
Responses ==
    {[kind |-> k, hasText |-> FALSE, text |-> <<>>] : k \in {"throws", "rejects", "resolves"}}
    \cup {[kind |-> "resolves", hasText |-> TRUE, text |-> t] : t \in Texts}

\* base64Image.split(',')[1] || base64Image
cleanBase64(parts) == IF Len(parts) >= 2 /\ parts[2] # "" THEN <<parts[2]>> ELSE parts

Resolved(c, value, isFallback) ==
    [c EXCEPT !.pc = "done",
              !.result = [settled |-> "resolved", value |-> value],
              !.fallbacks = IF isFallback THEN @ \cup {value} ELSE @]

\* generateCaptionForPhoto up to its await: without a key the mock caption
\* is returned, else the model is called
generateCaptionForPhoto(base64Image) ==
    /\ caption.pc \in {"loaded", "done"}
    /\ caption' = IF caption.apiKey = NoKey
                  THEN Resolved([caption EXCEPT !.request = <<>>,
                                                !.response = NoCaption.response],
                                MockCaption, TRUE)
                  ELSE [caption EXCEPT !.pc = "awaiting",
                                       !.request = cleanBase64(base64Image),
                                       !.response = NoCaption.response,
                                       !.result = NoCaption.result]
    /\ UNCHANGED <<appVars, dragVars, imgVars, domVars, rendered, dirty, loadVars,
                   ev, okVars, lastPt, fileSize, exported>>

\* response.text?.trim() || "Memories forever"
CaptionOf(response) ==
    IF response.hasText /\ trim(response.text) # <<>>
    THEN trim(response.text) ELSE EmptyTextCaption

\* the rest of generateCaptionForPhoto: the call throws or rejects (catch),
\* or resolves with a response
ModelAnswers(response) ==
    /\ caption.pc = "awaiting"
    /\ caption' =
         IF response.kind = "resolves"
         THEN Resolved([caption EXCEPT !.response = response], CaptionOf(response),
                       ~(response.hasText /\ trim(response.text) # <<>>))
         ELSE Resolved([caption EXCEPT !.response = response], ErrorCaption, TRUE)
    /\ UNCHANGED <<appVars, dragVars, imgVars, domVars, rendered, dirty, loadVars,
                   ev, okVars, lastPt, fileSize, exported>>

(* ------------------------------- export ------------------------------- *)
\* canvas.toDataURL throws when the browser refuses to read the pixels back:
\* the case the handler names is a remote image, here the default frame,
\* drawn on the canvas
PixelReadMayThrow(s) ==
    \E i \in 1..Len(s.layers) : s.layers[i].img = PLACEHOLDER_FRAME

\* faulty variant: no catch around the pixel read
ExportOutcome_Uncaught(threw, s, before) ==
    [threw |-> threw, alert |-> FALSE, clicked |-> ~threw,
     image |-> IF threw THEN <<>> ELSE s.layers,
     afterFailure |-> before.threw \/ before.afterFailure]

\* the try / catch of handleDownload: the link is clicked with the pixels
\* read, or the alert is shown
ExportOutcome(threw, s, before) ==
    [threw |-> threw, alert |-> threw, clicked |-> ~threw,
     image |-> IF threw THEN <<>> ELSE s.layers,
     afterFailure |-> before.threw \/ before.afterFailure]

\* handleDownload (the Download button): nothing without a canvas
handleDownload(threw) ==
    /\ threw => PixelReadMayThrow(surface)
    /\ exported' = IF canvasRef # Null THEN ExportOutcome(threw, surface, exported)
                   ELSE exported
    /\ ev' = Event("export", 0, FALSE)
    /\ UNCHANGED <<appVars, dragVars, imgVars, domVars, rendered, dirty, loadVars,
                   okVars, lastPt, fileSize, caption>>

(* ---------------------------- specification --------------------------- *)
Next ==
    \/ \E f \in Files, type \in {"photo", "frame"} : handleFileChange(f, type)
    \/ \E r \in readers : ReaderOnload(r)
    \/ \E src \in Sources : ProbeOnload(src)
    \/ \E src \in Sources : ProbeOnerror(src)
    \/ \E src \in Sources : FrameImgOnload(src)
    \/ \E src \in Sources : FrameImgOnerror(src)
    \/ \E src \in Sources : PhotoImgOnload(src)
    \/ \E src \in Sources : PhotoImgOnerror(src)
    \/ Flush
    \/ \E p \in Points : handlePointerDown(p)
    \/ \E p \in Points : \E w \in RectWidths : handlePointerMove(p, w)
    \/ handlePointerUp
    \/ handlePointerLeave
    \/ Reset
    \/ \E v \in ScaleValues : SetScale(v)
    \/ \E v \in RotationValues : SetRotation(v)
    \/ \E raw \in ScaleInputs : ScaleChange(raw)
    \/ \E raw \in RotationInputs : RotationChange(raw)
    \/ \E threw \in BOOLEAN : handleDownload(threw)
    \/ \E image \in Images : generateCaptionForPhoto(image)
    \/ \E response \in Responses : ModelAnswers(response)

Spec == Init /\ [][Next]_vars

\* Dragging: the pointer events, on a canvas with no frame, before and
\* after a photo is loaded.
NextDrag ==
    \/ handleFileChange(1, "photo")
    \/ \E r \in readers : ReaderOnload(r)
    \/ \E src \in Sources : PhotoImgOnload(src)
    \/ Flush
    \/ \E p \in Points : handlePointerDown(p)
    \/ \E p \in Points : \E w \in RectWidths : handlePointerMove(p, w)
    \/ handlePointerUp
    \/ handlePointerLeave

SpecDrag == Init /\ [][NextDrag]_vars

\* Loading: photos and frames, with the scale control and the reset.
\* A session either loads photos while the default frame is still being
\* fetched, or loads frames (the default one and the user's) with no photo.
PhotoChosen == photo.src # Null \/ \E r \in readers : r.type = "photo"
FrameUntouched == /\ frame = NoFrame
                  /\ frameError = Null
                  /\ frameProbes = {PLACEHOLDER_FRAME}
                  /\ \A r \in readers : r.type = "photo"

NextLoad ==
    \/ \E f \in Files : FrameUntouched /\ handleFileChange(f, "photo")
    \/ \E f \in Files : ~PhotoChosen /\ handleFileChange(f, "frame")
    \/ \E r \in readers : ReaderOnload(r)
    \/ \E src \in Sources : ~PhotoChosen /\ ProbeOnload(src)
    \/ \E src \in Sources : ~PhotoChosen /\ ProbeOnerror(src)
    \/ \E src \in Sources : FrameImgOnload(src)
    \/ \E src \in Sources : FrameImgOnerror(src)
    \/ \E src \in Sources : PhotoImgOnload(src)
    \/ \E src \in Sources : PhotoImgOnerror(src)
    \/ Flush
    \/ Reset
    \/ \E v \in ScaleValues : SetScale(v)

SpecLoad == Init /\ [][NextLoad]_vars

\* The direct controls, on a dragged photo under the default frame: the
\* state reached from Init once the default frame and then the photo of
\* file 1 have loaded and been rendered.
InitLoaded ==
    /\ fileSize = [f \in Sources |-> NaturalSize(f)]
    /\ photo = [INITIAL_PHOTO_STATE EXCEPT !.src = 1]
    /\ frame = [src |-> PLACEHOLDER_FRAME,
                width |-> NaturalSize(PLACEHOLDER_FRAME).width,
                height |-> NaturalSize(PLACEHOLDER_FRAME).height]
    /\ frameError = Null
    /\ canvasRef = 1
    /\ isDragging = FALSE
    /\ dragStart = Origin
    /\ frameImg = PLACEHOLDER_FRAME
    /\ photoImg = 1
    /\ rendered = [isDragging |-> FALSE, dragStart |-> Origin, photoSrc |-> 1,
                   frameSrc |-> frame.src, frameW |-> frame.width, frameH |-> frame.height]
    /\ dirty = Clean
    /\ canvas = CanvasSize(frame.width, frame.height)
    /\ surface = draw(Cleared(canvas), photoImg, photo, frameImg)
    /\ readers = {}
    /\ frameProbes = {}
    /\ frameLoads = {}
    /\ photoLoads = {}
    /\ ev = Event("flush", 0, TRUE)
    /\ lastOk = [photo |-> 1, frame |-> PLACEHOLDER_FRAME]
    /\ failedSince = [photo |-> FALSE, frame |-> FALSE]
    /\ lastPt = Origin
    /\ exported = NoExport
    /\ caption = NoCaption

NextControls ==
    \/ Flush
    \/ \E p \in Points : handlePointerDown(p)
    \/ \E p \in Points : \E w \in RectWidths : handlePointerMove(p, w)
    \/ handlePointerUp
    \/ Reset
    \/ \E v \in ScaleValues : SetScale(v)
    \/ \E v \in RotationValues : SetRotation(v)

SpecControls == InitLoaded /\ [][NextControls]_vars

\* Export: one photo, the default frame and the user's frame, loaded in any
\* order, any of the loads of the default frame failing, and the download.
NextExport ==
    \/ handleFileChange(1, "photo")
    \/ handleFileChange(2, "frame")
    \/ \E r \in readers : ReaderOnload(r)
    \/ \E src \in Sources : ProbeOnload(src)
    \/ \E src \in Sources : ProbeOnerror(src)
    \/ \E src \in Sources : FrameImgOnload(src)
    \/ \E src \in Sources : FrameImgOnerror(src)
    \/ \E src \in Sources : PhotoImgOnload(src)
    \/ Flush
    \/ \E threw \in BOOLEAN : handleDownload(threw)

SpecExport == Init /\ [][NextExport]_vars

\* Captions: the service loaded with or without a key, called any number
\* of times, the model answering in every way.
InitCaption ==
    /\ photo = INITIAL_PHOTO_STATE
    /\ frame = NoFrame
    /\ frameError = Null
    /\ canvasRef = 1
    /\ isDragging = FALSE
    /\ dragStart = Origin
    /\ frameImg = Null
    /\ photoImg = Null
    /\ rendered = [isDragging |-> FALSE, dragStart |-> Origin, photoSrc |-> Null,
                   frameSrc |-> Null, frameW |-> Null, frameH |-> Null]
    /\ dirty = Clean
    /\ canvas = CanvasSize(Null, Null)
    /\ surface = draw(Cleared(CanvasSize(Null, Null)), Null, INITIAL_PHOTO_STATE, Null)
    /\ readers = {}
    /\ frameProbes = {PLACEHOLDER_FRAME}
    /\ frameLoads = {}
    /\ photoLoads = {}
    /\ ev = Event("mount", 0, TRUE)
    /\ lastOk = [photo |-> Null, frame |-> Null]
    /\ failedSince = [photo |-> FALSE, frame |-> FALSE]
    /\ lastPt = Origin
    /\ fileSize = [f \in Sources |-> NaturalSize(f)]
    /\ exported = NoExport
    /\ caption \in {GeminiLoaded(NoKey), GeminiLoaded(<<"key">>)}

NextCaption ==
    \/ \E image \in Images : generateCaptionForPhoto(image)
    \/ \E response \in Responses : ModelAnswers(response)

SpecCaption == InitCaption /\ [][NextCaption]_vars

\* One drag at a time over the loaded photo: each drag starts with the
\* pointer at the origin and the photo centred, and all its moves have the
\* sensitivity MaxSens.
AtRest == ~isDragging /\ photo.x = 0 /\ photo.y = 0 /\ lastPt = Origin

NextDrift ==
    \/ AtRest /\ handlePointerDown(Origin)
    \/ \E p \in Points : handlePointerMove(p, canvas.width \div MaxSens)
    \/ Flush
    \/ handlePointerUp

SpecDrift == InitLoaded /\ [][NextDrift]_vars

\* A new photo over an adjusted one: the photo under the default frame is
\* dragged, enlarged and turned, and photo file 2 is chosen once, at rest
\* or in the middle of a drag.
NextNewPhoto ==
    \/ (photo.src = 1 /\ readers = {}) /\ handleFileChange(2, "photo")
    \/ \E r \in readers : ReaderOnload(r)
    \/ \E src \in Sources : PhotoImgOnload(src)
    \/ Flush
    \/ handlePointerDown(Origin)
    \/ \E p \in Points : handlePointerMove(p, canvas.width)
    \/ handlePointerUp
    \/ SetScale(ScaleMax)
    \/ SetRotation(RotationMax)

SpecNewPhoto == InitLoaded /\ [][NextNewPhoto]_vars

\* Control input: anything put into the two sliders, during a drag or not.
NextInput ==
    \/ \E p \in Points : handlePointerDown(p)
    \/ handlePointerUp
    \/ Reset
    \/ \E raw \in ScaleInputs : ScaleChange(raw)
    \/ \E raw \in RotationInputs : RotationChange(raw)

SpecInput == InitLoaded /\ [][NextInput]_vars

\* Sizing: the user's frame file 1 has any of the sizes tried, and is
\* loaded and rendered.
InitSizing ==
    /\ photo = INITIAL_PHOTO_STATE
    /\ frame = NoFrame
    /\ frameError = Null
    /\ canvasRef = 1
    /\ isDragging = FALSE
    /\ dragStart = Origin
    /\ frameImg = Null
    /\ photoImg = Null
    /\ rendered = [isDragging |-> FALSE, dragStart |-> Origin, photoSrc |-> Null,
                   frameSrc |-> Null, frameW |-> Null, frameH |-> Null]
    /\ dirty = Clean
    /\ canvas = CanvasSize(Null, Null)
    /\ surface = draw(Cleared(CanvasSize(Null, Null)), Null, INITIAL_PHOTO_STATE, Null)
    /\ readers = {}
    /\ frameProbes = {PLACEHOLDER_FRAME}
    /\ frameLoads = {}
    /\ photoLoads = {}
    /\ ev = Event("mount", 0, TRUE)
    /\ lastOk = [photo |-> Null, frame |-> Null]
    /\ failedSince = [photo |-> FALSE, frame |-> FALSE]
    /\ lastPt = Origin
    /\ \E size \in SizesTried :
          fileSize = [f \in Sources |-> IF f = 1 THEN size ELSE NaturalSize(f)]
    /\ exported = NoExport
    /\ caption = NoCaption

NextSizing ==
    \/ handleFileChange(1, "frame")
    \/ \E r \in readers : ReaderOnload(r)
    \/ ProbeOnload(1)
    \/ FrameImgOnload(1)
    \/ Flush

SpecSizing == InitSizing /\ [][NextSizing]_vars

(* ------------------------------- claims ------------------------------- *)
LoadFailed(op) == op \in {"probeError", "frameError", "photoError"}

\* C1: during a drag (the down handled, the state DRAGGING) every move
\* event to p adds sensitivity x (p - q) to (offsetX, offsetY), q being the
\* point of the previous pointer event of that drag.
C1_MoveAddsDeltaFromPreviousPoint ==
    [][(ev'.op = "move" /\ isDragging)
         => /\ photo'.x = photo.x + ev'.sens * (lastPt'.x - lastPt.x)
            /\ photo'.y = photo.y + ev'.sens * (lastPt'.y - lastPt.y)]_vars

\* C2: with no photo source, pointer events leave the offsets at (0, 0)
\* and the controller never enters DRAGGING.
C2_NoDragWithoutPhoto ==
    photo.src = Null => (photo.x = 0 /\ photo.y = 0 /\ ~isDragging)

\* C3: once photo A has loaded and a later photo load has failed, every
\* render composites A: the failed load neither replaces nor clears the
\* cached photo bitmap.
C3_FailedPhotoLoadKeepsBitmap ==
    /\ [][ev'.op = "photoError" => photoImg' = photoImg]_vars
    /\ []((ev.drew /\ failedSince.photo) => surface.photo = lastOk.photo)

C3_Witness ==
    /\ ev.drew
    /\ failedSince.photo
    /\ surface.photo # Null
    /\ photo.src # surface.photo

\* C4: a frame load that fails after a frame has loaded leaves the frame
\* state, the cached frame bitmap and the canvas width and height as they
\* were; and the canvas size is always the one computed from the frame
\* state, so the render that follows the advisory does not alter it either.
C4_FailedFrameLoadChangesNothing ==
    /\ [][(ev'.op \in {"probeError", "frameError"} /\ frame.src # Null)
            => (frame' = frame /\ frameImg' = frameImg /\ canvas' = canvas)]_vars
    /\ [](dirty = Clean => canvas = CanvasSize(frame.width, frame.height))

C4_Witness ==
    /\ ev.op = "probeError"
    /\ frame.src \in Files
    /\ frameImg = frame.src
    /\ canvas.width # canvas.height

\* C5: a failed photo load is a no-op on the photo state: no step of a load
\* that fails changes the stored source or the transform.
C5_FailedPhotoLoadIsNoOp ==
    [][/\ (ev'.op = "read" /\ photo' # photo) => FileDecodes(photo'.src)
       /\ ev'.op = "photoError" => photo' = photo]_vars

\* C6: every failed bitmap load sets the advisory, and none is retried.
C6_FailedLoadSetsAdvisory ==
    [][LoadFailed(ev'.op)
         => /\ frameError' # Null
            /\ readers' \subseteq readers
            /\ frameProbes' \subseteq frameProbes
            /\ frameLoads' \subseteq frameLoads
            /\ photoLoads' \subseteq photoLoads]_vars

\* a load leaves the loads in flight only by its own completion
LeavesOnlyBy(loads, loadsAfter, ops, op) ==
    \/ loads \subseteq loadsAfter
    \/ op \in ops /\ Cardinality(loads \ loadsAfter) = 1

\* C7: no load cancels another, and once the loads of a kind have all
\* completed the cached bitmap of that kind is the one of the load that
\* succeeded last, whatever the order in which the loads were started.
C7_LastCompletedLoadWins ==
    /\ [][/\ LeavesOnlyBy(readers, readers', {"read"}, ev'.op)
          /\ LeavesOnlyBy(frameProbes, frameProbes', {"probeLoad", "probeError"}, ev'.op)
          /\ LeavesOnlyBy(frameLoads, frameLoads', {"frameLoad", "frameError"}, ev'.op)
          /\ LeavesOnlyBy(photoLoads, photoLoads', {"photoLoad", "photoError"}, ev'.op)]_vars
    /\ [](photoLoads = {} => photoImg = lastOk.photo)
    /\ [](frameLoads = {} => frameImg = lastOk.frame)

\* the photo started first completed last, and is the one cached
C7_Witness ==
    /\ dirty = Clean
    /\ readers = {}
    /\ photoLoads = {}
    /\ photoImg # Null
    /\ photo.src # photoImg
    /\ FileDecodes(photo.src)

\* C8: the reset sets offsets 0, scale 1, rotation 0 and leaves the photo
\* source, both bitmaps, the frame state and the canvas size unchanged.
C8_ResetKeepsEverythingElse ==
    [][ev'.op = "reset"
         => /\ photo'.x = 0 /\ photo'.y = 0
            /\ photo'.scale = 10 /\ photo'.rotation = 0
            /\ photo'.src = photo.src
            /\ photoImg' = photoImg
            /\ frame' = frame
            /\ frameImg' = frameImg
            /\ canvas' = canvas]_vars

C8_Witness ==
    /\ ev.op = "reset"
    /\ isDragging
    /\ photo.src # Null
    /\ surface.photo = photoImg
    /\ surface.frame = PLACEHOLDER_FRAME
    /\ canvas.width # maxDim

\* the canvas was sized from the frame state as it is now
Sized == rendered.frameW = frame.width /\ rendered.frameH = frame.height /\ ~dirty.app

\* C9: for a frame of natural size (w, h) the canvas is 1080 wide and
\* 1080 x h / w high if w > h, else 1080 high and 1080 x w / h wide (as
\* whole pixels); with no frame size it is 1080 x 1080.
C9_CanvasSizing ==
    Sized =>
        canvas = IF frame.width # Null /\ frame.height # Null
                 THEN IF frame.width > frame.height
                      THEN [width |-> maxDim, height |-> (maxDim * frame.height) \div frame.width]
                      ELSE [width |-> (maxDim * frame.width) \div frame.height, height |-> maxDim]
                 ELSE [width |-> maxDim, height |-> maxDim]

\* C10: the canvas width and height are positive, neither exceeds 1080 and
\* the longer one is 1080.
C10_CanvasWithinBounds ==
    /\ canvas.width \in 1..maxDim
    /\ canvas.height \in 1..maxDim
    /\ canvas.width = maxDim \/ canvas.height = maxDim

\* C11: the scale is a number in [0.1, 4.0], so positive, and the rotation
\* a number in [-180, 180], whatever was put into the controls: input out of
\* range or not a number never reaches the photo state.
C11_TransformInputClamped ==
    /\ photo.scale # NaN /\ photo.scale > 0
    /\ photo.scale \in ScaleMin..ScaleMax
    /\ photo.rotation # NaN
    /\ photo.rotation \in RotationMin..RotationMax

\* out-of-range or unparsable input has been put into a control
C11_Witness ==
    /\ ev.op \in {"scale", "rotate"}
    /\ \/ ~ev.input.num
       \/ ev.op = "scale" /\ ev.input.val \notin ScaleMin..ScaleMax
       \/ ev.op = "rotate" /\ ev.input.val \notin RotationMin..RotationMax

\* C12: an export whose pixel read throws shows the message, clicks no
\* link, and leaves the photo and frame state, both bitmaps, the canvas
\* reference, the canvas size and the surface as they were; the export
\* stays invocable (its one condition, the canvas reference, still holds),
\* and with nothing remote drawn on the surface it succeeds.
C12_ExportFailureIsContained ==
    /\ [][(ev'.op = "export" /\ exported'.threw)
            => /\ exported'.alert /\ ~exported'.clicked
               /\ UNCHANGED <<photo, frame, photoImg, frameImg, canvasRef, canvas, surface>>
               /\ canvasRef' # Null]_vars
    /\ [][(ev'.op = "export" /\ ~PixelReadMayThrow(surface))
            => (exported'.clicked /\ exported'.image = surface.layers)]_vars

\* an export succeeded after one had failed and the frame was replaced
C12_Witness ==
    /\ ev.op = "export"
    /\ exported.clicked /\ exported.afterFailure
    /\ frameImg \in Files /\ photoImg # Null

\* a drawing call over the whole canvas, untransformed
WholeCanvas(l, s) ==
    /\ l.transform = Identity
    /\ l.x = 0 /\ l.y = 0 /\ l.w = 2 * s.width /\ l.h = 2 * s.height

\* C13: a render uses the photo and frame bitmaps of its component render,
\* and what it leaves on the surface is: first a white fill of the whole
\* canvas, then the photo layer if and only if there is a photo bitmap,
\* then, last and so on top, the frame over the whole canvas if and only if
\* there is a frame bitmap; with neither, the fill alone.
C13_RenderOrder ==
    /\ [][ev'.drew => (surface'.photo = photoImg /\ surface'.frame = frameImg)]_vars
    /\ [](surface.white =>
            LET L == surface.layers
                n == 1 + (IF surface.photo # Null THEN 1 ELSE 0)
                       + (IF surface.frame # Null THEN 1 ELSE 0)
            IN  /\ Len(L) = n
                /\ L[1].op = "fillRect" /\ WholeCanvas(L[1], surface)
                /\ surface.photo # Null =>
                      (L[2].op = "drawImage" /\ L[2].img = surface.photo)
                /\ surface.frame # Null =>
                      (L[n].op = "drawImage" /\ L[n].img = surface.frame
                         /\ WholeCanvas(L[n], surface)))

C13_Witness ==
    /\ ev.drew
    /\ surface.photo # Null /\ surface.frame # Null
    /\ Len(surface.layers) = 3

\* C14: a render leaves the context as it found it (default transform,
\* nothing saved), its fill and its frame are drawn untransformed, and
\* rendering again with the same bitmaps, transform and canvas size gives
\* the same surface.
C14_RenderIdempotent ==
    /\ surface.ctx = DefaultContext
    /\ \A i \in 1..Len(surface.layers) :
          surface.layers[i].img # surface.photo => surface.layers[i].transform = Identity
    /\ surface.white =>
          draw(surface, surface.photo,
               [src |-> surface.photo, x |-> surface.x, y |-> surface.y,
                scale |-> surface.scale, rotation |-> surface.rotation],
               surface.frame) = surface

\* a moved, rotated and enlarged photo has been rendered under the frame
C14_Witness ==
    /\ ev.drew
    /\ surface.photo # Null /\ surface.frame # Null
    /\ surface.rotation = 90 /\ surface.scale = 40 /\ surface.x # 0

\* C15: the photo layer is drawn under translate to (width/2 + offsetX,
\* height/2 + offsetY), then rotate by the rotation, then scale by the
\* scale on both axes, at (-bitmapWidth/2, -bitmapHeight/2) in its natural
\* size; the centre of the bitmap lands on the canvas point
\* (width/2 + offsetX, height/2 + offsetY).
C15_PhotoTransformOrder ==
    surface.photo # Null =>
        LET l == surface.layers[2]
            cx == surface.width + 2 * surface.x
            cy == surface.height + 2 * surface.y
        IN  /\ l.transform = <<TransformOp("translate", cx, cy),
                               TransformOp("rotate", surface.rotation, 0),
                               TransformOp("scale", surface.scale, surface.scale)>>
            /\ l.x = 0 - fileSize[l.img].width /\ l.y = 0 - fileSize[l.img].height
            /\ l.w = 2 * fileSize[l.img].width /\ l.h = 2 * fileSize[l.img].height
            /\ CanvasPoint(l.transform, [x |-> l.x + l.w \div 2, y |-> l.y + l.h \div 2])
                 = [x |-> cx, y |-> cy]

\* a photo moved off centre, turned and reduced has been rendered
C15_Witness ==
    /\ surface.photo # Null
    /\ surface.rotation = 0 - 180 /\ surface.scale = 1
    /\ surface.x # 0 /\ surface.y # 0

\* C16: a call of generateCaptionForPhoto that has returned has resolved to
\* a non-empty string, and the fallbacks returned, whatever the failures
\* were (no key, a throw or rejection, no text or empty text), are one and
\* the same string.
C16_CaptionFallbackFixed ==
    caption.pc = "done" =>
        /\ caption.result.settled = "resolved"
        /\ caption.result.value # <<>>
        /\ Cardinality(caption.fallbacks) <= 1

\* C17: the controller starts IDLE; a down makes it DRAGGING and records
\* the down position; an up, touch-end or leave makes it (or leaves it)
\* IDLE; a move received while IDLE changes neither the offsets nor the
\* recorded position.
C17_DragStateMachine ==
    /\ ~isDragging
    /\ [][/\ ev'.op = "down" => (isDragging' /\ dragStart' = lastPt')
          /\ ev'.op \in {"up", "leave"} => ~isDragging'
          /\ (ev'.op = "move" /\ ~isDragging)
               => (photo'.x = photo.x /\ photo'.y = photo.y /\ dragStart' = dragStart)]_vars

\* C18: over a drag, however its events interleave with the re-renders, the
\* total change of the offsets is sensitivity x (the last pointer position -
\* the down position); here every drag starts at offsets (0, 0) with the
\* down at the origin, so the offsets are sensitivity x the last position.
C18_NoDriftOverDrag ==
    /\ photo.x = MaxSens * lastPt.x
    /\ photo.y = MaxSens * lastPt.y

\* C19: the sizing step runs (the canvas width and height are written) only
\* in a render whose frame width or height differs from the previous
\* render's.
C19_ResizeOnlyOnFrameChange ==
    [][ev'.sized => (rendered'.frameW # rendered.frameW \/ rendered'.frameH # rendered.frameH)]_vars

\* C20: with no render pending, the surface is the render of the current
\* canvas size, transform and bitmaps.
C20_SurfaceNeverStale ==
    dirty = Clean => surface = draw(Cleared(canvas), photoImg, photo, frameImg)

\* no frame is being read, probed or loaded, and no render is pending
NoFrameLoadInFlight ==
    /\ \A r \in readers : r.type # "frame"
    /\ frameProbes = {} /\ frameLoads = {}
    /\ dirty = Clean

\* C21: with no frame load in flight, the frame bitmap that is drawn is
\* the bitmap of the source of the frame state, whose natural width and
\* height the canvas size was computed from.
C21_FrameBitmapAndSizePaired ==
    (NoFrameLoadInFlight /\ frameImg # Null)
        => /\ frameImg = frame.src
           /\ canvas = CanvasSize(fileSize[frameImg].width, fileSize[frameImg].height)

\* C22: when the bytes of a chosen photo file have been read, the photo
\* state becomes the file's data as source with offsets (0, 0), scale 1 and
\* rotation 0, whatever it was and whether or not a drag is in progress,
\* and the frame state stays as it was.
C22_NewPhotoReplacesPhotoState ==
    [][\A r \in readers \ readers' :
          (ev'.op = "read" /\ r.type = "photo")
            => /\ photo' = [src |-> r.file, x |-> 0, y |-> 0, scale |-> 10, rotation |-> 0]
               /\ frame' = frame]_vars

\* the file was read during a drag, over a photo shown moved, enlarged and
\* turned
C22_Witness ==
    /\ ev.op = "read" /\ isDragging
    /\ photo = [src |-> 2, x |-> 0, y |-> 0, scale |-> 10, rotation |-> 0]
    /\ surface.photo = 1 /\ surface.x # 0
    /\ surface.scale = ScaleMax /\ surface.rotation = RotationMax
    /\ frame.src = PLACEHOLDER_FRAME

=============================================================================
